---- MODULE Spec2Model ----
(***************************************************************************)
(* build_database.py: the script that summarises patient FHIR bundles,     *)
(* gathers them with the medical knowledge text files and indexes the      *)
(* whole in a persistent vector store.                                     *)
(*                                                                         *)
(* Representation of Python values:                                        *)
(*   - a str is a TLA+ string; Python's None in a str-typed slot is the    *)
(*     value None below;                                                   *)
(*   - an optional object (a pydantic field that may be None) is a         *)
(*     sequence of length at most one: Absent, or <<object>>;              *)
(*   - a formatted text (an f-string, a join) is the sequence of the       *)
(*     pieces put side by side to make it: the literal parts and the       *)
(*     formatted values, separators included; the empty string is the      *)
(*     empty sequence and NL is the line break.                            *)
(***************************************************************************)
EXTENDS Integers, Sequences, FiniteSets, TLC

\* Bounds of the model.
MaxEntries == 2
MaxFiles == 2

\* None where a str is expected; an f-string writes it "None".
None == "None"
Absent == <<>>
Some(x) == <<x>>
IsNone(opt) == opt = Absent
Value(opt) == opt[1]

Last(s) == s[Len(s)]

NL == "\n"

(***************************************************************************)
(* FHIR resources as fhir.resources exposes them: every declared field is  *)
(* an attribute, None when the JSON does not give it.                      *)
(***************************************************************************)
Resource(type) ==
    [resource_type |-> type, id |-> None, name |-> Absent, birthDate |-> Absent,
     gender |-> None, code |-> Absent, onsetDateTime |-> Absent,
     medicationCodeableConcept |-> Absent, valueQuantity |-> Absent]

Date(iso) == [iso |-> iso]
isoformat(d) == d.iso

HumanName(given, family) == [given |-> given, family |-> family]
CodeableConcept(text) == [text |-> text]
Quantity(value, unit) == [value |-> value, unit |-> unit]

JaneDoe == HumanName(Some(<<"Jane", "Q">>), "Doe")

PatientResources ==
    { [Resource("Patient") EXCEPT !.id = i, !.name = Some(<<JaneDoe>>),
          !.birthDate = Some(Date("2020-01-05")), !.gender = "female"]
        : i \in {"p1", "p2", None} }
    \cup
    { [Resource("Patient") EXCEPT !.id = "p1", !.name = n,
          !.birthDate = Some(Date("2020-01-05")), !.gender = "female"]
        : n \in {Absent, Some(<<HumanName(Absent, "Doe")>>)} }
    \cup
    { [Resource("Patient") EXCEPT !.id = "p1", !.name = Some(<<JaneDoe>>),
          !.gender = "female"] }

ConditionResources ==
    { [Resource("Condition") EXCEPT !.code = c, !.onsetDateTime = o]
        : c \in {Some(CodeableConcept("Hypertension"))},
          o \in {Absent, Some(Date("2021-03-01"))} }
    \cup { Resource("Condition") }

MedicationResources ==
    { [Resource("MedicationRequest") EXCEPT !.medicationCodeableConcept = m]
        : m \in {Absent, Some(CodeableConcept("Aspirin"))} }

ObservationResources ==
    { [Resource("Observation") EXCEPT !.code = Some(CodeableConcept(l)), !.valueQuantity = q]
        : l \in {"Body Mass Index", "Blood Pressure"},
          q \in {Absent, Some(Quantity("27", "kg/m2"))} }
    \cup
    { [Resource("Observation") EXCEPT !.code = c,
          !.valueQuantity = Some(Quantity("72", "/min"))]
        : c \in {Absent, Some(CodeableConcept(None)), Some(CodeableConcept("Heart rate")),
                 Some(CodeableConcept("Hemoglobin A1c/Hemoglobin.total in Blood"))} }

OtherResources == { Resource("Encounter") }

Resources ==
    PatientResources \cup ConditionResources \cup MedicationResources
        \cup ObservationResources \cup OtherResources

\* A Bundle entry; entry.resource is optional.
BundleEntry(resource) == [resource |-> resource]

Entries == { BundleEntry(Some(r)) : r \in Resources } \cup { BundleEntry(Absent) }

SeqsUpTo(S, n) == UNION { [1..k -> S] : k \in 0..n }

\* A patient file: unreadable, not JSON, JSON that is no Bundle, or a Bundle
\* whose entry list is None or a list of entries.
File(kind, entry) == [kind |-> kind, entry |-> entry]

BrokenFiles == { File(k, Absent) : k \in {"unreadable", "bad_json", "invalid_bundle"} }

Bundles(E, n) ==
    { File("bundle", Absent) } \cup { File("bundle", Some(es)) : es \in SeqsUpTo(E, n) }


VARIABLES
    medical_dir,      \* os.listdir(MEDICAL_KNOWLEDGE_DIR), Absent when the directory is missing
    patient_dir,      \* os.listdir(PATIENT_DATA_DIR), Absent when the directory is missing
    store_before,     \* the persistent store as the run found it
    store,            \* the persistent store at DB_PATH
    pc,               \* main's position
    outcome,          \* "running", "returned" (main returned) or "raised" (an exception left main)
    mi,               \* load_medical_knowledge: files of the listing already visited
    medical_docs,     \* load_medical_knowledge: documents
    pi,               \* load_patient_data: files of the listing already visited
    patient_docs,     \* load_patient_data: documents
    parsed,           \* what each call of parse_patient_fhir_bundle returned, in call order
    ppc,              \* parse_patient_fhir_bundle's position: "idle", "open", "loop", "return"
    idx,              \* parse_patient_fhir_bundle: entries already visited
    patient_id,
    patient_summary,
    result,           \* parse_patient_fhir_bundle's return value
    all_docs,
    ids,
    contents,
    embeddings,
    calls             \* the calls made to the embedding model and the vector store

vars ==
    <<medical_dir, patient_dir, store_before, store, pc, outcome, mi, medical_docs, pi,
      patient_docs, parsed, ppc, idx, patient_id, patient_summary, result, all_docs, ids,
      contents, embeddings, calls>>

mainVars == <<store, outcome, all_docs, ids, contents, embeddings, calls>>
medicalVars == <<mi, medical_docs>>
patientVars == <<pi, patient_docs, parsed>>
parseVars == <<ppc, idx, patient_id, patient_summary, result>>
inputVars == <<medical_dir, patient_dir, store_before>>

(***************************************************************************)
(* Text building.                                                          *)
(***************************************************************************)
Str(s) == <<s>>

RECURSIVE join(_, _)
join(sep, items) ==
    IF items = <<>> THEN <<>>
    ELSE IF Len(items) = 1 THEN items[1]
    ELSE items[1] \o sep \o join(sep, Tail(items))

Texts(strs) == [i \in 1..Len(strs) |-> Str(strs[i])]

(***************************************************************************)
(* parse_patient_fhir_bundle: the branches of the loop over bundle.entry.  *)
(***************************************************************************)
Document(id, content) == [id |-> id, content |-> content]

\* Variant of the except clause that returns what was built before the failure.
HandlerReturnsPartial == Some(Document(patient_id, join(Str(NL), patient_summary)))

\* The except clause: log the error, return None.
HandlerResult == Absent

\* resource.resource_type on an entry without resource raises AttributeError.
EntryRaises(entry) == IsNone(entry.resource)

\* Variant in which only the first Patient resource sets the id.
PatientIdFirstWins(current, resource) ==
    IF current = "Unknown" THEN resource.id ELSE current

\* patient_id = resource.id
PatientId(current, resource) == resource.id

\* name[0] on None, " ".join(None), None.isoformat() raise.
PatientRaises(resource) ==
    \/ IsNone(resource.name)
    \/ IsNone(Value(resource.name)[1].given)
    \/ IsNone(resource.birthDate)

PatientLines(id, resource) ==
    LET name == Value(resource.name)[1]
        given_name == join(Str(" "), Texts(Value(name.given)))
        family_name == name.family
        birth_date == isoformat(Value(resource.birthDate))
        gender == resource.gender
    IN  << <<"Patient Record ID: ", id>>,
           <<"Name: ">> \o given_name
               \o <<" ", family_name, ", DOB: ", birth_date, ", Gender: ", gender>> >>

\* resource.code.text on a Condition without code raises AttributeError.
ConditionRaises(resource) == IsNone(resource.code)

OnsetDate(resource) ==
    IF IsNone(resource.onsetDateTime) THEN "N/A"
    ELSE isoformat(Value(resource.onsetDateTime))

ConditionLine(resource) ==
    <<"Condition: ", Value(resource.code).text, " (Onset: ", OnsetDate(resource), ")">>

MedText(resource) ==
    IF IsNone(resource.medicationCodeableConcept) THEN "Unknown Medication"
    ELSE Value(resource.medicationCodeableConcept).text

MedicationLine(resource) == <<"Medication: ", MedText(resource)>>

ObservationTexts == {"Blood Pressure", "Body Mass Index", "Hemoglobin A1c/Hemoglobin.total in Blood"}

\* Variant without the membership test on the text.
ObservationSelectedAnyText(resource) == ~IsNone(resource.code)

\* hasattr(resource, 'code') holds of every Observation; hasattr(None, 'text') does not.
ObservationSelected(resource) ==
    /\ ~IsNone(resource.code)
    /\ Value(resource.code).text \in ObservationTexts

ValueText(resource) ==
    IF IsNone(resource.valueQuantity) THEN <<"N/A">>
    ELSE <<Value(resource.valueQuantity).value, " ", Value(resource.valueQuantity).unit>>

ObservationLine(resource) ==
    <<"Observation: ", Value(resource.code).text, " - ">> \o ValueText(resource)

\* Variant that puts the new lines first.
SummaryPrepend(summary, lines) == lines \o summary

\* patient_summary.append(line), for each line in turn
SummaryAppend(summary, lines) == summary \o lines


\* The file the loop of load_patient_data is at, and the entry the loop of
\* parse_patient_fhir_bundle is at.
CurrentName == Value(patient_dir)[pi + 1].filename
CurrentFile == Value(patient_dir)[pi + 1].file
CurrentEntries == Value(CurrentFile.entry)
CurrentEntry == CurrentEntries[idx + 1]
CurrentResource == Value(CurrentEntry.resource)

InLoop == ppc = "loop" /\ ~IsNone(CurrentFile.entry)
AtEntry == InLoop /\ idx < Len(CurrentEntries)
AtResource(type) ==
    /\ AtEntry
    /\ ~EntryRaises(CurrentEntry)
    /\ CurrentResource.resource_type = type

Raise ==
    /\ result' = HandlerResult
    /\ ppc' = "return"
    /\ UNCHANGED <<idx, patient_id, patient_summary>>

\* open(), json.load(), Bundle.parse_obj(), and the two locals.
ParseOpen ==
    /\ ppc = "open"
    /\ IF CurrentFile.kind # "bundle"
       THEN Raise
       ELSE /\ patient_summary' = <<>>
            /\ patient_id' = "Unknown"
            /\ idx' = 0
            /\ ppc' = "loop"
            /\ UNCHANGED result
    /\ UNCHANGED <<inputVars, mainVars, medicalVars, patientVars, pc>>

\* for entry in bundle.entry, bundle.entry being None: TypeError.
ParseNoEntries ==
    /\ ppc = "loop"
    /\ IsNone(CurrentFile.entry)
    /\ Raise
    /\ UNCHANGED <<inputVars, mainVars, medicalVars, patientVars, pc>>

ParseNoResource ==
    /\ AtEntry
    /\ EntryRaises(CurrentEntry)
    /\ Raise
    /\ UNCHANGED <<inputVars, mainVars, medicalVars, patientVars, pc>>

ParsePatient ==
    /\ AtResource("Patient")
    /\ IF PatientRaises(CurrentResource)
       THEN /\ result' = HandlerResult
            /\ ppc' = "return"
            /\ patient_id' = PatientId(patient_id, CurrentResource)
            /\ UNCHANGED <<idx, patient_summary>>
       ELSE /\ patient_id' = PatientId(patient_id, CurrentResource)
            /\ patient_summary' =
                   SummaryAppend(patient_summary, PatientLines(patient_id', CurrentResource))
            /\ idx' = idx + 1
            /\ UNCHANGED <<ppc, result>>
    /\ UNCHANGED <<inputVars, mainVars, medicalVars, patientVars, pc>>

ParseCondition ==
    /\ AtResource("Condition")
    /\ IF ConditionRaises(CurrentResource)
       THEN Raise
       ELSE /\ patient_summary' =
                   SummaryAppend(patient_summary, <<ConditionLine(CurrentResource)>>)
            /\ idx' = idx + 1
            /\ UNCHANGED <<ppc, result, patient_id>>
    /\ UNCHANGED <<inputVars, mainVars, medicalVars, patientVars, pc>>

ParseMedicationRequest ==
    /\ AtResource("MedicationRequest")
    /\ patient_summary' = SummaryAppend(patient_summary, <<MedicationLine(CurrentResource)>>)
    /\ idx' = idx + 1
    /\ UNCHANGED <<ppc, result, patient_id>>
    /\ UNCHANGED <<inputVars, mainVars, medicalVars, patientVars, pc>>

ParseObservation ==
    /\ AtResource("Observation")
    /\ patient_summary' =
           IF ObservationSelected(CurrentResource)
           THEN SummaryAppend(patient_summary, <<ObservationLine(CurrentResource)>>)
           ELSE patient_summary
    /\ idx' = idx + 1
    /\ UNCHANGED <<ppc, result, patient_id>>
    /\ UNCHANGED <<inputVars, mainVars, medicalVars, patientVars, pc>>

ParseOther ==
    /\ AtEntry
    /\ ~EntryRaises(CurrentEntry)
    /\ CurrentResource.resource_type
           \notin {"Patient", "Condition", "MedicationRequest", "Observation"}
    /\ idx' = idx + 1
    /\ UNCHANGED <<ppc, result, patient_id, patient_summary>>
    /\ UNCHANGED <<inputVars, mainVars, medicalVars, patientVars, pc>>

\* return {"id": patient_id, "content": "\n".join(patient_summary)}
ParseReturn ==
    /\ InLoop
    /\ idx = Len(CurrentEntries)
    /\ result' = Some(Document(patient_id, join(Str(NL), patient_summary)))
    /\ ppc' = "return"
    /\ UNCHANGED <<idx, patient_id, patient_summary>>
    /\ UNCHANGED <<inputVars, mainVars, medicalVars, patientVars, pc>>

(***************************************************************************)
(* load_patient_data                                                       *)
(***************************************************************************)
PatientFileNames == {"hospital_information_1.json", "hospital_information_2.json"}
OtherFileNames == {"practitioner_information.json"}

\* filename.startswith("hospital_information") and filename.endswith(".json"),
\* over the file names of the model.
IsPatientFile(filename) == filename \in PatientFileNames

\* if patient_doc: a dict with two keys is true, None is not.
Truthy(doc) == ~IsNone(doc)

LoadPatientNoDir ==
    /\ pc = "load_patient"
    /\ IsNone(patient_dir)
    /\ patient_docs' = <<>>
    /\ pc' = "assemble"
    /\ UNCHANGED <<inputVars, mainVars, medicalVars, parseVars, pi, parsed>>

LoadPatientCall ==
    /\ pc = "load_patient"
    /\ ~IsNone(patient_dir)
    /\ ppc = "idle"
    /\ pi < Len(Value(patient_dir))
    /\ IsPatientFile(CurrentName)
    /\ ppc' = "open"
    /\ UNCHANGED <<inputVars, mainVars, medicalVars, patientVars, pc,
                   idx, patient_id, patient_summary, result>>

LoadPatientSkip ==
    /\ pc = "load_patient"
    /\ ~IsNone(patient_dir)
    /\ ppc = "idle"
    /\ pi < Len(Value(patient_dir))
    /\ ~IsPatientFile(CurrentName)
    /\ pi' = pi + 1
    /\ UNCHANGED <<inputVars, mainVars, medicalVars, parseVars, pc, patient_docs, parsed>>

\* The call returns: the locals of parse_patient_fhir_bundle are gone.
LoadPatientAppend ==
    /\ pc = "load_patient"
    /\ ppc = "return"
    /\ patient_docs' = IF Truthy(result) THEN Append(patient_docs, Value(result))
                       ELSE patient_docs
    /\ parsed' = Append(parsed, result)
    /\ pi' = pi + 1
    /\ ppc' = "idle"
    /\ idx' = 0
    /\ patient_id' = None
    /\ patient_summary' = <<>>
    /\ result' = Absent
    /\ UNCHANGED <<inputVars, mainVars, medicalVars, pc>>

LoadPatientDone ==
    /\ pc = "load_patient"
    /\ ~IsNone(patient_dir)
    /\ ppc = "idle"
    /\ pi = Len(Value(patient_dir))
    /\ pc' = "assemble"
    /\ UNCHANGED <<inputVars, mainVars, medicalVars, patientVars, parseVars>>

NoStore == [collection |-> FALSE, documents |-> {}]

\* One patient file, of any content, in an otherwise empty run.
ParseInit ==
    /\ medical_dir = Some(<<>>)
    /\ \E f \in BrokenFiles \cup Bundles(Entries, MaxEntries) :
           patient_dir = Some(<<[filename |-> "hospital_information_1.json", file |-> f]>>)
    /\ store_before = NoStore
    /\ store = NoStore
    /\ pc = "load_patient"
    /\ outcome = "running"
    /\ mi = 0
    /\ medical_docs = <<>>
    /\ pi = 0
    /\ patient_docs = <<>>
    /\ parsed = <<>>
    /\ ppc = "idle"
    /\ idx = 0
    /\ patient_id = None
    /\ patient_summary = <<>>
    /\ result = Absent
    /\ all_docs = <<>>
    /\ ids = <<>>
    /\ contents = <<>>
    /\ embeddings = <<>>
    /\ calls = <<>>

ParseNext ==
    \/ LoadPatientCall
    \/ ParseOpen
    \/ ParseNoEntries
    \/ ParseNoResource
    \/ ParsePatient
    \/ ParseCondition
    \/ ParseMedicationRequest
    \/ ParseObservation
    \/ ParseOther
    \/ ParseReturn
    \/ LoadPatientAppend
    \/ LoadPatientDone

ParseSpec == ParseInit /\ [][ParseNext]_vars


(***************************************************************************)
(* load_medical_knowledge                                                  *)
(***************************************************************************)
TextFileNames == {"diabetes.txt", "hypertension.txt"}
NonTextFileNames == {"patient_data"}

\* filename.endswith(".txt"), over the file names of the model.
IsTextFile(filename) == filename \in TextFileNames

MedicalName == Value(medical_dir)[mi + 1].filename
MedicalContent == Value(medical_dir)[mi + 1].content

\* os.listdir of a missing directory raises; nothing catches it before main's caller.
LoadMedicalNoDir ==
    /\ pc = "load_medical"
    /\ IsNone(medical_dir)
    /\ outcome' = "raised"
    /\ pc' = "done"
    /\ UNCHANGED <<inputVars, medicalVars, patientVars, parseVars, store, all_docs, ids,
                   contents, embeddings, calls>>

\* A file that is not a .txt file is passed over.
LoadMedicalSkip ==
    /\ pc = "load_medical"
    /\ ~IsNone(medical_dir)
    /\ mi < Len(Value(medical_dir))
    /\ ~IsTextFile(MedicalName)
    /\ mi' = mi + 1
    /\ UNCHANGED <<inputVars, mainVars, patientVars, parseVars, pc, medical_docs>>

\* open() and read(): the document is appended, or the error is logged.
LoadMedicalFile ==
    /\ pc = "load_medical"
    /\ ~IsNone(medical_dir)
    /\ mi < Len(Value(medical_dir))
    /\ IsTextFile(MedicalName)
    /\ medical_docs' =
           IF IsNone(MedicalContent) THEN medical_docs
           ELSE Append(medical_docs, Document(MedicalName, Value(MedicalContent)))
    /\ mi' = mi + 1
    /\ UNCHANGED <<inputVars, mainVars, patientVars, parseVars, pc>>

LoadMedicalDone ==
    /\ pc = "load_medical"
    /\ ~IsNone(medical_dir)
    /\ mi = Len(Value(medical_dir))
    /\ pc' = "load_patient"
    /\ UNCHANGED <<inputVars, mainVars, medicalVars, patientVars, parseVars>>

(***************************************************************************)
(* main                                                                    *)
(***************************************************************************)
Call(fn, i, d, e) == [fn |-> fn, ids |-> i, documents |-> d, embeddings |-> e]

\* Variant with the patient documents first.
ConcatPatientFirst(medical, patient) == patient \o medical

\* all_docs = medical_docs + patient_docs
Concat(medical, patient) == medical \o patient

\* model.encode(contents): one vector for each text, in order.
Vector(text) == [of |-> text]
Encode(texts) == [i \in 1..Len(texts) |-> Vector(texts[i])]

\* ids = [doc['id'] for doc in all_docs], contents = [doc['content'] for doc in all_docs]
DocIds(docs) == [i \in 1..Len(docs) |-> docs[i].id]
DocContents(docs) == [i \in 1..Len(docs) |-> docs[i].content]

\* collection.add(embeddings, documents, ids): a record for each id the collection
\* does not hold yet.
StoreAdd(st, i, d, e) ==
    [st EXCEPT !.documents =
        @ \cup { [id |-> i[k], document |-> d[k], embedding |-> e[k]] :
                   k \in { n \in 1..Len(i) : \A old \in st.documents : old.id # i[n] } }]

Fails ==
    /\ outcome' = "raised"
    /\ pc' = "done"

\* Variant without the early return.
NoDocumentsUnchecked(docs) == FALSE

\* not all_docs
NoDocuments(docs) == docs = <<>>

\* all_docs is built; without documents main logs a warning and returns.
Assemble ==
    /\ pc = "assemble"
    /\ all_docs' = Concat(medical_docs, patient_docs)
    /\ IF NoDocuments(all_docs')
       THEN outcome' = "returned" /\ pc' = "done"
       ELSE outcome' = outcome /\ pc' = "model"
    /\ UNCHANGED <<inputVars, medicalVars, patientVars, parseVars, store, ids, contents,
                   embeddings, calls>>

\* model = SentenceTransformer(EMBEDDING_MODEL)
LoadModel ==
    /\ pc = "model"
    /\ calls' = Append(calls, Call("SentenceTransformer", <<>>, <<>>, <<>>))
    /\ \/ pc' = "client" /\ outcome' = outcome
       \/ Fails
    /\ UNCHANGED <<inputVars, medicalVars, patientVars, parseVars, store, all_docs, ids,
                   contents, embeddings>>

\* client = chromadb.PersistentClient(path=DB_PATH)
OpenClient ==
    /\ pc = "client"
    /\ calls' = Append(calls, Call("PersistentClient", <<>>, <<>>, <<>>))
    /\ \/ pc' = "collection" /\ outcome' = outcome
       \/ Fails
    /\ UNCHANGED <<inputVars, medicalVars, patientVars, parseVars, store, all_docs, ids,
                   contents, embeddings>>

\* collection = client.get_or_create_collection(name=COLLECTION_NAME)
GetOrCreateCollection ==
    /\ pc = "collection"
    /\ calls' = Append(calls, Call("get_or_create_collection", <<>>, <<>>, <<>>))
    /\ \/ /\ store' = [store EXCEPT !.collection = TRUE]
          /\ pc' = "encode"
          /\ outcome' = outcome
       \/ Fails /\ store' = store
    /\ UNCHANGED <<inputVars, medicalVars, patientVars, parseVars, all_docs, ids, contents,
                   embeddings>>

\* ids, contents, and embeddings = model.encode(contents).tolist()
EncodeContents ==
    /\ pc = "encode"
    /\ ids' = DocIds(all_docs)
    /\ contents' = DocContents(all_docs)
    /\ calls' = Append(calls, Call("encode", <<>>, contents', <<>>))
    /\ \/ /\ embeddings' = Encode(contents')
          /\ pc' = "add"
          /\ outcome' = outcome
       \/ Fails /\ embeddings' = embeddings
    /\ UNCHANGED <<inputVars, medicalVars, patientVars, parseVars, store, all_docs>>

\* collection.add(...), then the closing log lines with collection.count().
AddDocuments ==
    /\ pc = "add"
    /\ calls' = Append(calls, Call("add", ids, contents, embeddings))
    /\ \/ /\ store' = StoreAdd(store, ids, contents, embeddings)
          /\ pc' = "done"
          /\ outcome' = "returned"
       \/ Fails /\ store' = store
    /\ UNCHANGED <<inputVars, medicalVars, patientVars, parseVars, all_docs, ids, contents,
                   embeddings>>

(***************************************************************************)
(* The runs: the two directories and the store as the run finds them.      *)
(***************************************************************************)
PatientJane ==
    [Resource("Patient") EXCEPT !.id = "p1", !.name = Some(<<JaneDoe>>),
        !.birthDate = Some(Date("2020-01-05")), !.gender = "female"]

Hypertension ==
    [Resource("Condition") EXCEPT !.code = Some(CodeableConcept("Hypertension")),
        !.onsetDateTime = Some(Date("2021-03-01"))]

BundleOf(resources) ==
    File("bundle", Some([i \in 1..Len(resources) |-> BundleEntry(Some(resources[i]))]))

Aspirin ==
    [Resource("MedicationRequest") EXCEPT
        !.medicationCodeableConcept = Some(CodeableConcept("Aspirin"))]

BodyMassIndex ==
    [Resource("Observation") EXCEPT !.code = Some(CodeableConcept("Body Mass Index")),
        !.valueQuantity = Some(Quantity("27", "kg/m2"))]

\* The patient files of a run: an unreadable file, a bundle without entry list,
\* a patient with one resource of each kind, a patient without id, and a bundle
\* whose second entry holds no resource.
RunFiles ==
    { File("unreadable", Absent),
      File("bundle", Absent),
      BundleOf(<<PatientJane, Hypertension, Aspirin, BodyMassIndex, Resource("Encounter")>>),
      BundleOf(<<[PatientJane EXCEPT !.id = None]>>),
      File("bundle", Some(<<BundleEntry(Some(Hypertension)), BundleEntry(Absent)>>)) }

MedicalEntries ==
    { [filename |-> n, content |-> Some(<<"text of ", n>>)] : n \in TextFileNames }
    \cup { [filename |-> n, content |-> Absent] : n \in TextFileNames }
    \cup { [filename |-> n, content |-> Absent] : n \in NonTextFileNames }

PatientEntries ==
    { [filename |-> n, file |-> f] : n \in PatientFileNames, f \in RunFiles }
    \cup { [filename |-> n, file |-> File("unreadable", Absent)] : n \in OtherFileNames }

\* A directory listing: no file name twice.
Listings(E) ==
    { l \in SeqsUpTo(E, MaxFiles) :
        \A i, j \in 1..Len(l) : l[i].filename = l[j].filename => i = j }

OldStore ==
    [collection |-> TRUE,
     documents |-> { [id |-> "old.txt", document |-> <<"old text">>,
                      embedding |-> Vector(<<"old text">>)] }]

Init ==
    /\ medical_dir \in {Absent} \cup { Some(l) : l \in Listings(MedicalEntries) }
    /\ patient_dir \in {Absent} \cup { Some(l) : l \in Listings(PatientEntries) }
    /\ store_before \in {NoStore, OldStore}
    /\ store = store_before
    /\ pc = "load_medical"
    /\ outcome = "running"
    /\ mi = 0
    /\ medical_docs = <<>>
    /\ pi = 0
    /\ patient_docs = <<>>
    /\ parsed = <<>>
    /\ ppc = "idle"
    /\ idx = 0
    /\ patient_id = None
    /\ patient_summary = <<>>
    /\ result = Absent
    /\ all_docs = <<>>
    /\ ids = <<>>
    /\ contents = <<>>
    /\ embeddings = <<>>
    /\ calls = <<>>

Next ==
    \/ LoadMedicalNoDir
    \/ LoadMedicalSkip
    \/ LoadMedicalFile
    \/ LoadMedicalDone
    \/ LoadPatientNoDir
    \/ LoadPatientCall
    \/ LoadPatientSkip
    \/ ParseOpen
    \/ ParseNoEntries
    \/ ParseNoResource
    \/ ParsePatient
    \/ ParseCondition
    \/ ParseMedicationRequest
    \/ ParseObservation
    \/ ParseOther
    \/ ParseReturn
    \/ LoadPatientAppend
    \/ LoadPatientDone
    \/ Assemble
    \/ LoadModel
    \/ OpenClient
    \/ GetOrCreateCollection
    \/ EncodeContents
    \/ AddDocuments

Spec == Init /\ [][Next]_vars


(***************************************************************************)
(* The record a call of parse_patient_fhir_bundle has read, and the lines  *)
(* of the text it returned.                                                *)
(***************************************************************************)
Returning == pc = "load_patient" /\ ppc = "return"
ReturnedUnit == Returning /\ ~IsNone(result)

IsValidRecord(file) ==
    /\ file.kind = "bundle"
    /\ ~IsNone(file.entry)
    /\ \A i \in 1..Len(Value(file.entry)) : ~IsNone(Value(file.entry)[i].resource)

RecordResources(file) ==
    [i \in 1..Len(Value(file.entry)) |-> Value(Value(file.entry)[i].resource)]

OfType(resources, type) ==
    { i \in 1..Len(resources) : resources[i].resource_type = type }

FirstNL(text) ==
    IF \E k \in 1..Len(text) : text[k] = NL
    THEN CHOOSE k \in 1..Len(text) : text[k] = NL /\ \A j \in 1..(k - 1) : text[j] # NL
    ELSE 0

RECURSIVE SplitNL(_)
SplitNL(text) ==
    IF FirstNL(text) = 0 THEN <<text>>
    ELSE <<SubSeq(text, 1, FirstNL(text) - 1)>>
             \o SplitNL(SubSeq(text, FirstNL(text) + 1, Len(text)))

\* The lines of a text; the empty text has none.
LinesOf(text) == IF text = <<>> THEN <<>> ELSE SplitNL(text)

LinesStarting(text, prefix) ==
    LET starts(line) == line # <<>> /\ line[1] = prefix
    IN  SelectSeq(LinesOf(text), starts)

\* C1 as the spec states it: with two or more Patient resources the unit's id
\* is the id of the first Patient in record order, and the later ones add no
\* "Patient Record ID" line.
C1_FirstPatientSetsId ==
    ReturnedUnit =>
        LET rs == RecordResources(CurrentFile)
            ps == OfType(rs, "Patient")
            first == CHOOSE i \in ps : \A j \in ps : i <= j
        IN  Cardinality(ps) >= 2 =>
                /\ Value(result).id = rs[first].id
                /\ Len(LinesStarting(Value(result).content, "Patient Record ID: ")) = 1

\* C1, amended: with two or more Patient resources the unit's id is the id of
\* the LAST Patient in record order, and every Patient resource adds both a
\* "Patient Record ID" line carrying its own id and its "Name: ..." line.
C1_LastPatientSetsId ==
    ReturnedUnit =>
        LET rs == RecordResources(CurrentFile)
            ps == OfType(rs, "Patient")
            last == CHOOSE i \in ps : \A j \in ps : j <= i
            isPatient(r) == r.resource_type = "Patient"
            patients == SelectSeq(rs, isPatient)
            idLines == LinesStarting(Value(result).content, "Patient Record ID: ")
            nameLines == LinesStarting(Value(result).content, "Name: ")
        IN  Cardinality(ps) >= 2 =>
                /\ Value(result).id = rs[last].id
                /\ Len(idLines) = Len(patients)
                /\ Len(nameLines) = Len(patients)
                /\ \A k \in 1..Len(patients) : idLines[k][2] = patients[k].id

C1_Witness ==
    /\ ReturnedUnit
    /\ LET rs == RecordResources(CurrentFile)
       IN  /\ Len(rs) = 2
           /\ rs[1].resource_type = "Patient" /\ rs[1].id = "p1"
           /\ rs[2].resource_type = "Patient" /\ rs[2].id = "p2"
           /\ Value(result).id = "p2"

\* C2 as the spec states it: a structurally valid record always yields a unit,
\* whatever optional fields its resources lack.
C2_ValidRecordYieldsUnit ==
    (Returning /\ IsValidRecord(CurrentFile)) => ~IsNone(result)

\* C8 as the spec states it: a record without Patient resource, the record
\* without resources included, yields a unit whose id is "Unknown", with the
\* empty text when no resource gave a line.
C8_NoPatientYieldsUnknown ==
    (/\ Returning
     /\ CurrentFile.kind = "bundle"
     /\ \/ IsNone(CurrentFile.entry)
        \/ /\ IsValidRecord(CurrentFile)
           /\ OfType(RecordResources(CurrentFile), "Patient") = {})
        => /\ ~IsNone(result)
           /\ Value(result).id = "Unknown"
           /\ patient_summary = <<>> => Value(result).content = <<>>


\* C9: an Observation adds a line if and only if its text is one of "Blood
\* Pressure", "Body Mass Index", "Hemoglobin A1c/Hemoglobin.total in Blood";
\* an Observation with another text, or none, adds nothing, and a listed one
\* without quantity adds exactly "Observation: <text> - N/A".
C9_ObservationAllowList ==
    [][AtResource("Observation") =>
          LET r == CurrentResource
              label == IF IsNone(r.code) THEN None ELSE Value(r.code).text
              listed == label \in {"Blood Pressure", "Body Mass Index",
                                   "Hemoglobin A1c/Hemoglobin.total in Blood"}
          IN  /\ ~listed => patient_summary' = patient_summary
              /\ listed =>
                    /\ Len(patient_summary') = Len(patient_summary) + 1
                    /\ SubSeq(patient_summary', 1, Len(patient_summary)) = patient_summary
                    /\ SubSeq(Last(patient_summary'), 1, 3) = <<"Observation: ", label, " - ">>
              /\ (listed /\ IsNone(r.valueQuantity)) =>
                    Last(patient_summary') = <<"Observation: ", label, " - ", "N/A">>
      ]_vars

C9_Witness ==
    /\ pc = "load_patient"
    /\ ppc = "loop"
    /\ idx = 2
    /\ LET r == Value(CurrentEntries[idx].resource)
       IN  /\ r.resource_type = "Observation"
           /\ r.code = Some(CodeableConcept("Body Mass Index"))
           /\ IsNone(r.valueQuantity)
    /\ Len(patient_summary) = 2
    /\ Last(patient_summary) = <<"Observation: ", "Body Mass Index", " - ", "N/A">>

\* What a resource is expected to add to the summary: the opening words of its
\* lines, each with the value that follows.
ExpectedMarks(r) ==
    CASE r.resource_type = "Patient" ->
            << <<"Patient Record ID: ", r.id>>, <<"Name: ", Value(Value(r.name)[1].given)[1]>> >>
      [] r.resource_type = "Condition" -> << <<"Condition: ", Value(r.code).text>> >>
      [] r.resource_type = "MedicationRequest" ->
            << <<"Medication: ",
                 IF IsNone(r.medicationCodeableConcept) THEN "Unknown Medication"
                 ELSE Value(r.medicationCodeableConcept).text>> >>
      [] r.resource_type = "Observation"
           /\ ~IsNone(r.code)
           /\ Value(r.code).text \in {"Blood Pressure", "Body Mass Index",
                                      "Hemoglobin A1c/Hemoglobin.total in Blood"} ->
            << <<"Observation: ", Value(r.code).text>> >>
      [] OTHER -> <<>>

RECURSIVE ExpectedMarksOf(_)
ExpectedMarksOf(resources) ==
    IF resources = <<>> THEN <<>>
    ELSE ExpectedMarks(Head(resources)) \o ExpectedMarksOf(Tail(resources))

Marks(text) == [i \in 1..Len(LinesOf(text)) |-> SubSeq(LinesOf(text)[i], 1, 2)]

\* C10: the lines of the summary text are in the order of the resources that
\* gave them, a Patient's identifier line right before its demographic line;
\* their number is the number of summarised non-Patient resources plus two for
\* each Patient, so at most the number of resources plus that of Patients.
C10_LinesInResourceOrder ==
    ReturnedUnit =>
        LET rs == RecordResources(CurrentFile)
            text == Value(result).content
            patients == OfType(rs, "Patient")
            summarised == { i \in 1..Len(rs) : i \notin patients /\ ExpectedMarks(rs[i]) # <<>> }
        IN  /\ Marks(text) = ExpectedMarksOf(rs)
            /\ Len(LinesOf(text)) = Cardinality(summarised) + 2 * Cardinality(patients)
            /\ Len(LinesOf(text)) <= Len(rs) + Cardinality(patients)

C10_Witness ==
    /\ ReturnedUnit
    /\ LET rs == RecordResources(CurrentFile)
       IN  /\ Len(rs) = 2
           /\ rs[1].resource_type = "Condition"
           /\ rs[2].resource_type = "Patient"
           /\ Len(LinesOf(Value(result).content)) = 3
           /\ LinesOf(Value(result).content)[1][1] = "Condition: "
           /\ LinesOf(Value(result).content)[2][1] = "Patient Record ID: "
           /\ LinesOf(Value(result).content)[3][1] = "Name: "


(***************************************************************************)
(* The runs of main.                                                       *)
(***************************************************************************)
Assembled == pc \in {"model", "client", "collection", "encode", "add", "done"}

\* C3 as the spec states it: with an empty corpus the run fails with an error
\* surfaced to the caller, and neither the embedding function nor the vector
\* store is ever invoked.
C3_EmptyCorpusRaises ==
    (pc = "done" /\ all_docs = <<>> /\ ~IsNone(medical_dir)) =>
        /\ outcome = "raised"
        /\ calls = <<>>
        /\ store = store_before

\* C3, amended: with an empty corpus main returns normally after its warning
\* (no error reaches the caller), and neither the embedding function nor the
\* vector store is ever invoked: no model load, no collection, no add.
C3_EmptyCorpusReturns ==
    /\ all_docs = <<>> => (calls = <<>> /\ store = store_before)
    /\ (pc = "done" /\ all_docs = <<>> /\ ~IsNone(medical_dir)) => outcome = "returned"

C3_Witness ==
    /\ pc = "done"
    /\ all_docs = <<>>
    /\ outcome = "returned"
    /\ calls = <<>>
    /\ ~IsNone(medical_dir)
    /\ Len(Value(medical_dir)) >= 1
    /\ Len(parsed) >= 1

KnowledgeFiles ==
    LET read(e) == IsTextFile(e.filename) /\ ~IsNone(e.content)
    IN  SelectSeq(Value(medical_dir), read)

\* C4: the corpus has len(K) + len(P) units, the knowledge units K first, in
\* discovery order, then the patient units P in their order; the texts given to
\* the embedding function and the ids, texts and vectors given to the store are
\* in corpus order, position by position.
C4_CorpusOrder ==
    /\ (pc # "load_medical" /\ ~IsNone(medical_dir)) =>
          /\ Len(medical_docs) = Len(KnowledgeFiles)
          /\ \A i \in 1..Len(medical_docs) :
                /\ medical_docs[i].id = KnowledgeFiles[i].filename
                /\ medical_docs[i].content = Value(KnowledgeFiles[i].content)
    /\ Assembled =>
          /\ Len(all_docs) = Len(medical_docs) + Len(patient_docs)
          /\ \A i \in 1..Len(medical_docs) : all_docs[i] = medical_docs[i]
          /\ \A j \in 1..Len(patient_docs) : all_docs[Len(medical_docs) + j] = patient_docs[j]
    /\ \A c \in 1..Len(calls) :
          /\ calls[c].fn = "encode" =>
                /\ Len(calls[c].documents) = Len(all_docs)
                /\ \A i \in 1..Len(all_docs) : calls[c].documents[i] = all_docs[i].content
          /\ calls[c].fn = "add" =>
                /\ Len(calls[c].ids) = Len(all_docs)
                /\ Len(calls[c].documents) = Len(all_docs)
                /\ Len(calls[c].embeddings) = Len(all_docs)
                /\ \A i \in 1..Len(all_docs) :
                      /\ calls[c].ids[i] = all_docs[i].id
                      /\ calls[c].documents[i] = all_docs[i].content
                      /\ calls[c].embeddings[i].of = all_docs[i].content

C4_Witness ==
    /\ pc = "done"
    /\ outcome = "returned"
    /\ Len(medical_docs) = 2
    /\ Len(patient_docs) = 2
    /\ patient_docs[1].id # patient_docs[2].id
    /\ Len(all_docs) = 4
    /\ Last(calls).fn = "add"

\* C5 as the spec states it: every unit of the corpus handed to the indexing
\* steps has a non-empty id, a unit without id having been dropped.
C5_IdsNonEmpty ==
    Assembled => \A i \in 1..Len(all_docs) : all_docs[i].id \notin {None, ""}

\* C6 as the spec states it: after a failure of the embedding function or the
\* store, the store holds what it held before the run (no collection created,
\* no documents added); after a run that went through, it holds every unit.
C6_AllOrNothing ==
    /\ outcome = "raised" => store = store_before
    /\ (outcome = "returned" /\ all_docs # <<>>) =>
          \A i \in 1..Len(all_docs) :
              \E d \in store.documents :
                  d.id = all_docs[i].id /\ d.document = all_docs[i].content

PatientFiles ==
    LET named(e) == IsPatientFile(e.filename)
    IN  SelectSeq(Value(patient_dir), named)

\* A file that cannot be read or parsed: open, json.load or Bundle.parse_obj
\* fails, or the loop over the entries raises.
Unparseable(file) ==
    \/ ~IsValidRecord(file)
    \/ \E i \in 1..Len(RecordResources(file)) :
          LET r == RecordResources(file)[i]
          IN  \/ r.resource_type = "Patient" /\ PatientRaises(r)
              \/ r.resource_type = "Condition" /\ ConditionRaises(r)

ParsedUnits ==
    LET unit(r) == ~IsNone(r)
        kept == SelectSeq(parsed, unit)
    IN  [i \in 1..Len(kept) |-> Value(kept[i])]

\* C7: a patient file that cannot be read or parsed gives no unit and none of
\* the lines built before the failure; the run goes on, visits every file, and
\* the units of the other files are in the corpus in file discovery order.
C7_BadFileSkipped ==
    (~IsNone(medical_dir) /\ ~IsNone(patient_dir)) =>
        /\ Len(parsed) <= Len(PatientFiles)
        /\ \A k \in 1..Len(parsed) : IsNone(parsed[k]) <=> Unparseable(PatientFiles[k].file)
        /\ patient_docs = ParsedUnits
        /\ pc \in {"load_medical", "load_patient", "assemble"} => outcome = "running"
        /\ pc \notin {"load_medical", "load_patient"} => Len(parsed) = Len(PatientFiles)
        /\ Assembled =>
              SubSeq(all_docs, Len(all_docs) - Len(ParsedUnits) + 1, Len(all_docs)) = ParsedUnits

C7_Witness ==
    /\ pc = "done"
    /\ ~IsNone(patient_dir)
    /\ Len(PatientFiles) = 2
    /\ Len(parsed) = 2
    /\ PatientFiles[1].file.kind = "bundle"
    /\ ~IsNone(PatientFiles[1].file.entry)
    /\ Len(Value(PatientFiles[1].file.entry)) = 2
    /\ IsNone(parsed[1])
    /\ ~IsNone(parsed[2])
    /\ Len(all_docs) = 1
    /\ all_docs[1] = Value(parsed[2])

====
